---- MODULE Spec2Model ----
(***************************************************************************)
(* A model of meme_stock_tracker.py: the config store (config.ini read and *)
(* written through configparser), the prompt rendering (str.format), the   *)
(* retried backend call (tenacity), the report file and viewer, the        *)
(* schedule-time setting (strptime) and the start-up dispatch.             *)
(*                                                                         *)
(* Text is a sequence of tokens.  A token is one character (" ", "=", "{", *)
(* "0", ...) or a named run of characters that contains no space, brace or *)
(* delimiter and that the program only ever compares as a whole            *)
(* ("today_date", "YOUR_API_KEY_HERE", "true", a section or key name).     *)
(*                                                                         *)
(* The third-party packages the script imports (Pillow, tenacity,          *)
(* google.genai) are taken to be installed, so the import guards at lines  *)
(* 12-23 and 292-297 pass.  Whether the installed google.genai has the     *)
(* attribute "exceptions" that line 335 names is a property of that        *)
(* package, not of the script: the model leaves it open.                   *)
(***************************************************************************)
EXTENDS Naturals, Integers, Sequences, FiniteSets, TLC

VARIABLES
    config_ini,     \* config.ini: NoFile, or its physical lines (token sequences)
    files,          \* report files: [Dates -> NoFile or text]
    today,          \* the calendar date of the system clock
    argv,           \* sys.argv of the running process (argv[1] is the script)
    pc,             \* where the process is
    exit_status,    \* the exit status of the process, -1 while it has not ended
    menu_seen,      \* the running process has shown the main menu
    gen_calls,      \* calls of get_meme_stocks made by the running process
    api_key,        \* get_meme_stocks: local api_key (None when absent)
    today_date,     \* get_meme_stocks: local today_date
    prompt,         \* get_meme_stocks: local prompt (None before rendering)
    attempt_number, \* tenacity: retry_state.attempt_number of the current call
    waits,          \* tenacity: the sleeps made between attempts, in order
    response,       \* get_meme_stocks: response.text (None while there is none)
    outcome,        \* what the current get_meme_stocks run printed last
    escaped,        \* the exception that left get_meme_stocks ("none" if none)
    viewer,         \* text shown by _display_report_gui in this run, or None
    files0,         \* the report files as they were when the run started
    prev_file,      \* content of today's report file before the run's write
    paused,         \* the run waited on "Press Enter to return to the menu"
    platform,       \* sys.platform
    genai_exceptions, \* the installed google.genai has exceptions.APIError
    tz_offset,      \* local time zone's offset from UTC, in minutes
    task,           \* the OS scheduled task DailyMemeStockReport (/st value)
    edits,          \* settings operations performed so far
    sched_in,       \* update_schedule_time: the text typed last
    sched_prev,     \* update_schedule_time: stored TIME_UTC before that call
    sched_ok,       \* update_schedule_time: strptime accepted and the save succeeded
    set_args,       \* config round trip: the arguments of the last set_config_value
    set_ret,        \* config round trip: what that call returned
    get_ret,        \* config round trip: what the get_config_value after it returned
    tpl,            \* rendering: the template handed to str.format
    rendered        \* rendering: the result of str.format (None before the call)

vars == << config_ini, files, today, argv, pc, exit_status, menu_seen, gen_calls,
           api_key, today_date, prompt, attempt_number, waits, response,
           outcome, escaped, viewer, files0, prev_file, paused, platform, genai_exceptions, tz_offset,
           task, edits, sched_in, sched_prev, sched_ok, set_args, set_ret, get_ret, tpl,
           rendered >>

\* Python's None where a text is expected, a file that does not exist, and a
\* report file that does not exist: values of the shape of a text (or of a
\* file's lines) built from tokens no text contains
None == <<"<None>">>
NoFile == << <<"<no file>">> >>
NoReport == <<"<no file>">>
NoDate == "<None>"

----------------------------------------------------------------------------
(* Text helpers.                                                           *)

IsSpace(c) == c \in {" ", "\t"}

RECURSIVE LStrip(_)
LStrip(s) == IF s # << >> /\ IsSpace(Head(s)) THEN LStrip(Tail(s)) ELSE s

RECURSIVE RStrip(_)
RStrip(s) ==
    IF s # << >> /\ IsSpace(s[Len(s)]) THEN RStrip(SubSeq(s, 1, Len(s) - 1)) ELSE s

\* str.strip()
Strip(s) == RStrip(LStrip(s))

\* str.lower() of one token
LowerTok(c) ==
    CASE c \in {"True", "TRUE"} -> "true"
      [] c \in {"False", "FALSE"} -> "false"
      [] c = "KEY" -> "key"
      [] c = "MODEL" -> "model"
      [] c = "TEMPLATE" -> "template"
      [] c = "TIME_UTC" -> "time_utc"
      [] c = "SHOW_GUI" -> "show_gui"
      [] c = "A" -> "a"
      [] OTHER -> c

\* str.lower()
Lower(s) == [i \in 1..Len(s) |-> LowerTok(s[i])]

\* All token sequences over alphabet A of length at most n
SeqsUpTo(A, n) == UNION {[1..k -> A] : k \in 0..n}

\* Index of the first token of s that is in set D, 0 if there is none
RECURSIVE FirstIn(_, _, _)
FirstIn(s, D, i) ==
    IF i > Len(s) THEN 0 ELSE IF s[i] \in D THEN i ELSE FirstIn(s, D, i + 1)

\* Index of the last token of s equal to c, 0 if there is none
RECURSIVE LastOf(_, _, _)
LastOf(s, c, i) ==
    IF i < 1 THEN 0 ELSE IF s[i] = c THEN i ELSE LastOf(s, c, i - 1)

----------------------------------------------------------------------------
(* configparser.ConfigParser(interpolation=None), as get_config_value and  *)
(* set_config_value use it.  A parsed configuration is a sequence of       *)
(* sections [name, opts], opts a sequence of options [key, val], both in   *)
(* the order of first insertion (the order config.write keeps).            *)

Delimiters == {"=", ":"}
CommentPrefixes == {"#", ";"}

SectionIndex(data, name) ==
    IF \E i \in 1..Len(data) : data[i].name = name
    THEN CHOOSE i \in 1..Len(data) : data[i].name = name
    ELSE 0

OptionIndex(opts, key) ==
    IF \E i \in 1..Len(opts) : opts[i].key = key
    THEN CHOOSE i \in 1..Len(opts) : opts[i].key = key
    ELSE 0

\* RawConfigParser.optionxform: option names are lower-cased
optionxform(key) == Lower(key)

\* One physical line of config.ini, as RawConfigParser._read classifies it
LineKind(line) ==
    LET value == Strip(line) IN
    IF value = << >> THEN "empty"
    ELSE IF value[1] \in CommentPrefixes THEN "comment"
    ELSE IF value[1] = "[" /\ LastOf(value, "]", Len(value)) > 2 THEN "section"
    ELSE IF FirstIn(value, Delimiters, 1) > 0 THEN "option"
    ELSE "error"

SectionOf(line) ==
    LET value == Strip(line) IN SubSeq(value, 2, LastOf(value, "]", Len(value)) - 1)

OptionOf(line) ==
    LET value == Strip(line)
        d == FirstIn(value, Delimiters, 1)
    IN  [key |-> optionxform(RStrip(SubSeq(value, 1, d - 1))),
         val |-> Strip(SubSeq(value, d + 1, Len(value)))]

\* RawConfigParser._read from line i on; cur is the index of the current
\* section (0 before the first header).  strict=True: a repeated section or
\* option, an option before any header, an option with an empty name and a
\* line that is neither are all configparser.Error.
RECURSIVE ReadLines(_, _, _, _)
ReadLines(lines, i, cur, data) ==
    IF i > Len(lines) THEN [ok |-> TRUE, data |-> data]
    ELSE
      LET kind == LineKind(lines[i]) IN
      CASE kind \in {"empty", "comment"} -> ReadLines(lines, i + 1, cur, data)
        [] kind = "section" ->
             IF SectionIndex(data, SectionOf(lines[i])) # 0
             THEN [ok |-> FALSE, data |-> data]
             ELSE ReadLines(lines, i + 1, Len(data) + 1,
                            Append(data, [name |-> SectionOf(lines[i]), opts |-> << >>]))
        [] kind = "option" ->
             LET o == OptionOf(lines[i]) IN
             IF cur = 0 \/ o.key = << >> \/ OptionIndex(data[cur].opts, o.key) # 0
             THEN [ok |-> FALSE, data |-> data]
             ELSE ReadLines(lines, i + 1, cur,
                            [data EXCEPT ![cur].opts = Append(@, o)])
        [] OTHER -> [ok |-> FALSE, data |-> data]

\* config.read(config_path): a missing file is skipped and leaves the parser empty
ConfigRead(file) ==
    IF file = NoFile THEN [ok |-> TRUE, data |-> << >>] ELSE ReadLines(file, 1, 0, << >>)

\* config.get(section, key, fallback=fallback)
ConfigGet(data, section, key, fallback) ==
    LET s == SectionIndex(data, section) IN
    IF s = 0 THEN fallback
    ELSE LET o == OptionIndex(data[s].opts, optionxform(key)) IN
         IF o = 0 THEN fallback ELSE data[s].opts[o].val

\* config.add_section(section) when missing, then config.set(section, key, value)
ConfigSet(data, section, key, value) ==
    LET d1 == IF SectionIndex(data, section) = 0
              THEN Append(data, [name |-> section, opts |-> << >>])
              ELSE data
        s == SectionIndex(d1, section)
        k == optionxform(key)
        o == OptionIndex(d1[s].opts, k)
    IN  IF o = 0
        THEN [d1 EXCEPT ![s].opts = Append(@, [key |-> k, val |-> value])]
        ELSE [d1 EXCEPT ![s].opts[o].val = value]

\* One option as RawConfigParser._write_section writes it: "key = value"
OptionLine(o) == o.key \o <<" ", "=", " ">> \o o.val

RECURSIVE OptionLines(_)
OptionLines(opts) ==
    IF opts = << >> THEN << >> ELSE <<OptionLine(Head(opts))>> \o OptionLines(Tail(opts))

\* config.write(configfile): per section "[name]", its options, a blank line
RECURSIVE ConfigWrite(_)
ConfigWrite(data) ==
    IF data = << >> THEN << >>
    ELSE <<(<<"[">> \o Head(data).name \o <<"]">>)>> \o OptionLines(Head(data).opts)
         \o << << >> >> \o ConfigWrite(Tail(data))

\* get_config_value(section, key, fallback) on config.ini content `file`
get_config_value(file, section, key, fallback) ==
    IF file = NoFile THEN fallback
    ELSE LET r == ConfigRead(file) IN
         IF r.ok THEN ConfigGet(r.data, <<section>>, <<key>>, fallback) ELSE fallback

\* set_config_value(section, key, value): the value returned.  io_ok is whether
\* open(config_path, 'w') succeeds.
set_config_ret(file, section, key, value, io_ok) == ConfigRead(file).ok /\ io_ok

\* Mutant: config.set is skipped, the file is rewritten as it was read
set_config_file_unset(file, section, key, value, io_ok) ==
    IF set_config_ret(file, section, key, value, io_ok)
    THEN ConfigWrite(ConfigRead(file).data)
    ELSE file

\* set_config_value(section, key, value): config.ini afterwards
set_config_file(file, section, key, value, io_ok) ==
    IF set_config_ret(file, section, key, value, io_ok)
    THEN ConfigWrite(ConfigSet(ConfigRead(file).data, <<section>>, <<key>>, value))
    ELSE file

----------------------------------------------------------------------------
(* str.format(today_date=...), as get_meme_stocks line 311 applies it to   *)
(* the stored template.  Templates are over the tokens "{", "}",           *)
(* "today_date" and plain characters; the field syntax characters          *)
(* ":", "!", "." and "[" are outside the alphabet.                         *)

PLACEHOLDER == <<"{", "today_date", "}">>
Braces == {"{", "}"}

\* The markup scan of str.format from token i on, out being the text produced
\* so far.  "{{" and "}}" are escapes for one brace; a lone "}" or a trailing
\* "{" is a ValueError; "{" opens a replacement field that runs to the next
\* "}" ("{" inside it, or no "}" at all, is a ValueError); field today_date is
\* the keyword argument, the empty field is positional index 0 of an empty
\* tuple (IndexError), any other name is a KeyError.
RECURSIVE FormatFrom(_, _, _, _)
FormatFrom(s, i, date, out) ==
    IF i > Len(s) THEN [ok |-> TRUE, out |-> out, err |-> "none"]
    ELSE IF s[i] \notin Braces THEN FormatFrom(s, i + 1, date, Append(out, s[i]))
    ELSE IF s[i] = "}" THEN
        IF i < Len(s) /\ s[i + 1] = "}"
        THEN FormatFrom(s, i + 2, date, Append(out, "}"))
        ELSE [ok |-> FALSE, out |-> << >>, err |-> "ValueError"]
    ELSE IF i = Len(s) THEN [ok |-> FALSE, out |-> << >>, err |-> "ValueError"]
    ELSE IF s[i + 1] = "{" THEN FormatFrom(s, i + 2, date, Append(out, "{"))
    ELSE LET j == FirstIn(s, Braces, i + 1)
             name == SubSeq(s, i + 1, j - 1)
         IN  IF j = 0 \/ s[j] = "{" THEN [ok |-> FALSE, out |-> << >>, err |-> "ValueError"]
             ELSE IF name = << >> THEN [ok |-> FALSE, out |-> << >>, err |-> "IndexError"]
             ELSE IF name = <<"today_date">> THEN FormatFrom(s, j + 1, date, out \o date)
             ELSE [ok |-> FALSE, out |-> << >>, err |-> "KeyError"]

\* Mutant: only the first field is substituted, the rest is copied as it is
Format_first_only(template, date) ==
    LET j == FirstIn(template, {"}"}, 1) IN
    IF j = 0 THEN FormatFrom(template, 1, date, << >>)
    ELSE LET r == FormatFrom(SubSeq(template, 1, j), 1, date, << >>) IN
         IF r.ok THEN [r EXCEPT !.out = @ \o SubSeq(template, j + 1, Len(template))] ELSE r

\* prompt_template.format(today_date=today_date)
Format(template, date) == FormatFrom(template, 1, date, << >>)

----------------------------------------------------------------------------
(* datetime.datetime.strptime(time_str, '%H:%M'), as update_schedule_time  *)
(* line 200 uses it to validate the typed time.                            *)

Digit == {"0", "1", "2", "3", "4", "5", "6", "7", "8", "9"}

At(s, i) == IF i \in 1..Len(s) THEN s[i] ELSE "EOS"

\* %H is the regex 2[0-3]|[0-1]\d|\d : the lengths it can match at i, in order
HourLens(s, i) ==
    (IF (At(s, i) = "2" /\ At(s, i + 1) \in {"0", "1", "2", "3"})
        \/ (At(s, i) \in {"0", "1"} /\ At(s, i + 1) \in Digit)
     THEN <<2>> ELSE << >>)
    \o (IF At(s, i) \in Digit THEN <<1>> ELSE << >>)

\* %M is the regex [0-5]\d|\d : the lengths it can match at i, in order
MinuteLens(s, i) ==
    (IF At(s, i) \in {"0", "1", "2", "3", "4", "5"} /\ At(s, i + 1) \in Digit
     THEN <<2>> ELSE << >>)
    \o (IF At(s, i) \in Digit THEN <<1>> ELSE << >>)

\* format_regex.match(data_string): the end of the first match the backtracking
\* search finds (hour alternatives in order, then ":", then minute
\* alternatives in order), 0 when there is no match
MatchEnd(s) ==
    LET hs == HourLens(s, 1)
        Try(h) == IF At(s, h + 1) = ":" /\ MinuteLens(s, h + 2) # << >>
                  THEN h + 1 + Head(MinuteLens(s, h + 2)) ELSE 0
    IN  IF hs = << >> THEN 0
        ELSE IF Try(hs[1]) # 0 THEN Try(hs[1])
        ELSE IF Len(hs) > 1 THEN Try(hs[2]) ELSE 0

\* strptime returns (TRUE) or raises ValueError (FALSE): no match, or
\* "unconverted data remains" when the match ends before the string does
strptime_ok(s) == MatchEnd(s) # 0 /\ MatchEnd(s) = Len(s)

----------------------------------------------------------------------------
(* tenacity: @retry(stop=stop_after_attempt(5),                            *)
(*                  wait=wait_exponential(multiplier=1, min=4, max=10))    *)

STOP_MAX_ATTEMPT == 5
WAIT_MULTIPLIER == 1
WAIT_MIN == 4
WAIT_MAX == 10

Max2(a, b) == IF a >= b THEN a ELSE b
Min2(a, b) == IF a <= b THEN a ELSE b

\* Mutant: the stop condition off by one (a sixth attempt is made)
stop_after_attempt_late(n) == n > STOP_MAX_ATTEMPT

\* stop_after_attempt.__call__: attempt_number >= max_attempt_number
stop_after_attempt(n) == n >= STOP_MAX_ATTEMPT

\* wait_exponential.__call__ after failed attempt n (exp_base 2)
wait_exponential(n) ==
    Max2(Max2(0, WAIT_MIN), Min2(WAIT_MULTIPLIER * 2^(n - 1), WAIT_MAX))

----------------------------------------------------------------------------
(* Program constants and the values the environment supplies.              *)

\* DEFAULT_PROMPT_TEMPLATE, shortened: text, one {today_date} field, text
DEFAULT_PROMPT_TEMPLATE ==
    <<"Pre-open", " ", "{", "today_date", "}", ",", " ", "list", " ", "10">>
DEFAULT_MODEL == <<"gemini-2.5-pro">>
DEFAULT_SCHEDULE_TIME_UTC == <<"1", "3", ":", "2", "5">>
SENTINEL == <<"YOUR_API_KEY_HERE">>
SCRIPT == "meme_stock_tracker.py"

Dates == {"2025-01-02", "2025-01-03"}
FirstDate == "2025-01-02"
NextDate == "2025-01-03"

\* strftime("%Y-%m-%d") of a date
DateText(d) == <<d>>

\* Texts the backend may answer with
Texts == {<<"report-A">>, <<"report-B">>}

\* Command lines: no argument, the marker alone, another argument, the marker
\* followed by more, the marker in second place
ArgvForms ==
    { <<SCRIPT>>, <<SCRIPT, "run">>, <<SCRIPT, "other">>,
      <<SCRIPT, "run", "other">>, <<SCRIPT, "other", "run">> }

\* Generation runs one interactive session may start
MaxRuns == 2

\* A config.ini holding the given options (None: option absent)
MakeConfig(key, template, show_gui) ==
    LET d0 == << >>
        d1 == IF key = None THEN d0 ELSE ConfigSet(d0, <<"API">>, <<"KEY">>, key)
        d2 == IF template = None THEN d1
              ELSE ConfigSet(d1, <<"Prompt">>, <<"TEMPLATE">>, template)
        d3 == IF show_gui = None THEN d2
              ELSE ConfigSet(d2, <<"Settings">>, <<"SHOW_GUI">>, show_gui)
    IN  ConfigWrite(d3)

GoodTemplates ==
    { None,
      <<"{", "today_date", "}", "x", "{", "today_date", "}">>,
      <<"x", "{", "{", "y", "}", "}">>,
      <<"plain">> }
BadTemplates ==
    { <<"{", "x", "}">>, <<"{", "x", "}", "{">>, <<"a", "{">>, <<"}", "{", "x", "}">>,
      <<"{", "}">> }
GuiValues == { None, <<"true">>, <<"True">>, <<"false">>, <<"yes">> }

\* The config.ini files a run may find: none, one that does not parse (an
\* option before any section header), and files with each kind of API key,
\* template and SHOW_GUI value
InitConfigs ==
    { NoFile, << <<"key", " ", "=", " ", "k">> >> }
    \cup { MakeConfig(k, None, None) : k \in {None, << >>, SENTINEL} }
    \cup { << <<"[", "API", "]">>, <<"key", " ", "=", " ", " ">>, << >> >> }
    \cup { MakeConfig(<<"k">>, t, None) : t \in GoodTemplates }
    \cup { MakeConfig(<<"k">>, None, g) : g \in GuiValues }
    \cup { MakeConfig(<<"k">>, t, None) : t \in BadTemplates }

----------------------------------------------------------------------------
(* __main__ and main_menu.                                                 *)

\* Mutant: only the marker alone selects the automated run
IsRunInvocation_single(a) == Len(a) = 2 /\ a[2] = "run"

\* len(sys.argv) > 1 and sys.argv[1] == 'run'   (sys.argv[i] is argv[i + 1])
IsRunInvocation(a) == Len(a) > 1 /\ a[2] = "run"

NoArgs == [section |-> "", key |-> "", value |-> << >>]
NotRendered == [ok |-> FALSE, out |-> << >>, err |-> "not called"]

GmsLocals == << api_key, today_date, prompt, attempt_number, waits, response, outcome,
                escaped, viewer, files0, prev_file, paused >>
SettingsVars == << platform, genai_exceptions, tz_offset, task, edits, sched_in, sched_prev, sched_ok >>
RoundTripVars == << set_args, set_ret, get_ret >>
RenderVars == << tpl, rendered >>

\* The operating system starts the script with command line a: a new process,
\* whose get_meme_stocks has no locals yet
Launch(a) ==
    /\ pc \in {"off", "exited"}
    /\ argv' = a
    /\ pc' = "main"
    /\ exit_status' = -1
    /\ menu_seen' = FALSE
    /\ gen_calls' = 0
    /\ api_key' = None
    /\ today_date' = NoDate
    /\ prompt' = None
    /\ attempt_number' = 0
    /\ waits' = << >>
    /\ response' = None
    /\ outcome' = "none"
    /\ escaped' = "none"
    /\ viewer' = None
    /\ files0' = files
    /\ prev_file' = None
    /\ paused' = FALSE
    /\ UNCHANGED << config_ini, files, today, SettingsVars, RoundTripVars, RenderVars >>

\* Midnight passes while no report is being generated
NewDay ==
    /\ pc \in {"off", "exited", "menu"}
    /\ today = FirstDate
    /\ today' = NextDate
    /\ UNCHANGED << config_ini, files, argv, pc, exit_status, menu_seen, gen_calls,
                    GmsLocals, SettingsVars, RoundTripVars, RenderVars >>

\* if __name__ == "__main__": the 'run' argument bypasses the menu
Dispatch ==
    /\ pc = "main"
    /\ IF IsRunInvocation(argv)
       THEN pc' = "gms_start" /\ menu_seen' = FALSE
       ELSE pc' = "menu" /\ menu_seen' = TRUE
    /\ UNCHANGED << config_ini, files, today, argv, exit_status, gen_calls, GmsLocals,
                    SettingsVars, RoundTripVars, RenderVars >>

\* main_menu choice '2': get_meme_stocks()
MenuRunNow ==
    /\ pc = "menu"
    /\ gen_calls < MaxRuns
    /\ pc' = "gms_start"
    /\ UNCHANGED << config_ini, files, today, argv, exit_status, menu_seen, gen_calls,
                    GmsLocals, SettingsVars, RoundTripVars, RenderVars >>

\* main_menu choice '4': the loop breaks and the interpreter ends normally
MenuExit ==
    /\ pc = "menu"
    /\ pc' = "exited"
    /\ exit_status' = 0
    /\ UNCHANGED << config_ini, files, today, argv, menu_seen, gen_calls, GmsLocals,
                    SettingsVars, RoundTripVars, RenderVars >>

\* __main__ after get_meme_stocks() returned: sys.exit(0)
AutoExit ==
    /\ pc = "auto_done"
    /\ pc' = "exited"
    /\ exit_status' = 0
    /\ UNCHANGED << config_ini, files, today, argv, menu_seen, gen_calls, GmsLocals,
                    SettingsVars, RoundTripVars, RenderVars >>

----------------------------------------------------------------------------
(* get_meme_stocks.                                                        *)

\* Mutant: the placeholder key is taken for a real one
KeyNotConfigured_no_sentinel(k) == k = None \/ k = << >>

\* not api_key or api_key == 'YOUR_API_KEY_HERE'
KeyNotConfigured(k) == k = None \/ k = << >> \/ k = SENTINEL

\* Mutant: the except KeyError clause and the catch-all are missing
Handler_no_key_error(exc) ==
    IF exc = "APIError" THEN "api_error" ELSE "uncaught"

\* The except clauses of get_meme_stocks, in order: the clause that takes an
\* exception of class exc, "uncaught" if none does.  Every exception the try
\* block raises here (KeyError, ValueError, IndexError, OSError and tenacity's
\* RetryError) is an Exception.
Handler(exc) ==
    IF exc = "APIError" THEN "api_error"
    ELSE IF exc = "KeyError" THEN "missing_key"
    ELSE IF exc \in {"ValueError", "IndexError", "OSError", "RetryError"} THEN "unexpected"
    ELSE "uncaught"

\* Where get_meme_stocks returns to: main_menu's loop, or __main__
ReturnPc == IF menu_seen THEN "menu" ELSE "auto_done"

\* Exception exc is raised inside the try block.  Python evaluates the
\* clauses' expressions in order when the exception reaches them, the first
\* being genai.exceptions.APIError: without that attribute the evaluation
\* raises AttributeError, which leaves the try statement.  Otherwise the
\* matching clause prints and the function returns.  An exception that leaves
\* the function meets no handler in main_menu or __main__ and ends the
\* process with a traceback (status 1).
Raised(exc) ==
    IF ~genai_exceptions
    THEN /\ pc' = "exited"
         /\ exit_status' = 1
         /\ escaped' = "AttributeError"
         /\ outcome' = "traceback"
    ELSE IF Handler(exc) = "uncaught"
    THEN /\ pc' = "exited"
         /\ exit_status' = 1
         /\ escaped' = exc
         /\ outcome' = "traceback"
    ELSE /\ pc' = ReturnPc
         /\ exit_status' = exit_status
         /\ escaped' = "none"
         /\ outcome' = Handler(exc)

\* Lines 299-311: the API key check, then the prompt is rendered
GmsStart ==
    /\ pc = "gms_start"
    /\ gen_calls' = gen_calls + 1
    /\ api_key' = get_config_value(config_ini, "API", "KEY", None)
    /\ attempt_number' = 0
    /\ waits' = << >>
    /\ response' = None
    /\ viewer' = None
    /\ files0' = files
    /\ prev_file' = None
    /\ IF KeyNotConfigured(api_key')
       THEN /\ outcome' = "not_configured"
            /\ paused' = ~IsRunInvocation(argv)
            /\ pc' = ReturnPc
            /\ today_date' = NoDate
            /\ prompt' = None
            /\ escaped' = "none"
            /\ exit_status' = exit_status
       ELSE LET prompt_template ==
                    get_config_value(config_ini, "Prompt", "TEMPLATE",
                                     DEFAULT_PROMPT_TEMPLATE)
                r == Format(prompt_template, DateText(today))
            IN  /\ paused' = FALSE
                /\ today_date' = today
                /\ IF r.ok
                   THEN /\ prompt' = r.out
                        /\ pc' = "gms_call"
                        /\ outcome' = "generating"
                        /\ escaped' = "none"
                        /\ exit_status' = exit_status
                   ELSE /\ prompt' = None
                        /\ Raised(r.err)
    /\ UNCHANGED << config_ini, files, today, argv, menu_seen, SettingsVars,
                    RoundTripVars, RenderVars >>

\* Line 320, one attempt of _call_gemini_api that succeeds with text
GmsCallSucceeds(text) ==
    /\ pc = "gms_call"
    /\ attempt_number' = attempt_number + 1
    /\ response' = text
    /\ pc' = "gms_write"
    /\ UNCHANGED << config_ini, files, today, argv, exit_status, menu_seen, gen_calls,
                    api_key, today_date, prompt, waits, outcome, escaped, viewer,
                    files0, prev_file, paused, SettingsVars, RoundTripVars, RenderVars >>

\* Line 320, one attempt that raises: tenacity stops with RetryError once
\* stop_after_attempt holds, and otherwise sleeps wait_exponential and retries
GmsCallFails ==
    /\ pc = "gms_call"
    /\ attempt_number' = attempt_number + 1
    /\ IF stop_after_attempt(attempt_number')
       THEN /\ waits' = waits
            /\ Raised("RetryError")
       ELSE /\ waits' = Append(waits, wait_exponential(attempt_number'))
            /\ UNCHANGED << pc, exit_status, escaped, outcome >>
    /\ UNCHANGED << config_ini, files, today, argv, menu_seen, gen_calls, api_key,
                    today_date, prompt, response, viewer, files0, prev_file, paused,
                    SettingsVars, RoundTripVars, RenderVars >>

\* Mutant: the file is opened in append mode
open_a_write(old, output_text) == IF old = NoReport THEN output_text ELSE old \o output_text

\* open(output_file_path, "w") then file.write(output_text): the file's content
\* afterwards, old being its content before (NoReport if it did not exist)
open_w_write(old, output_text) == output_text

\* Mutant: the viewer is opened whatever SHOW_GUI says
show_gui_always(file) == TRUE

\* get_config_value('Settings', 'SHOW_GUI', fallback='true').lower() == 'true'
show_gui(file) == Lower(get_config_value(file, "Settings", "SHOW_GUI", <<"true">>)) = <<"true">>

\* Lines 322-333: the report file is written, then SHOW_GUI decides on the
\* viewer.  io_ok is whether the file can be opened for writing.
GmsWrite(io_ok) ==
    /\ pc = "gms_write"
    /\ IF io_ok
       THEN /\ files' = [files EXCEPT ![today_date] = open_w_write(@, response)]
            /\ prev_file' = files[today_date]
            /\ escaped' = "none"
            /\ exit_status' = exit_status
            /\ IF show_gui(config_ini)
               THEN pc' = "gms_gui" /\ outcome' = "saved"
               ELSE pc' = ReturnPc /\ outcome' = "gui_disabled"
       ELSE /\ files' = files
            /\ prev_file' = prev_file
            /\ Raised("OSError")
    /\ UNCHANGED << config_ini, today, argv, menu_seen, gen_calls, api_key, today_date,
                    prompt, attempt_number, waits, response, viewer, files0, paused,
                    SettingsVars, RoundTripVars, RenderVars >>

\* Line 331, _display_report_gui(output_text, today_date): the window shows
\* the text until it is closed; without a display tk.TclError is caught inside
GmsDisplay(gui_ok) ==
    /\ pc = "gms_gui"
    /\ viewer' = IF gui_ok THEN response ELSE None
    /\ outcome' = IF gui_ok THEN "displayed" ELSE "gui_error"
    /\ pc' = ReturnPc
    /\ UNCHANGED << config_ini, files, today, argv, exit_status, menu_seen, gen_calls,
                    api_key, today_date, prompt, attempt_number, waits, response,
                    escaped, files0, prev_file, paused, SettingsVars, RoundTripVars,
                    RenderVars >>

----------------------------------------------------------------------------
(* The program as started by the scheduler or by hand: dispatch, the main  *)
(* menu's run-now and exit choices, and report generation.                 *)

Init ==
    /\ config_ini \in InitConfigs
    /\ files = [d \in Dates |-> NoReport]
    /\ today = FirstDate
    /\ argv = <<SCRIPT>>
    /\ pc = "off"
    /\ exit_status = -1
    /\ menu_seen = FALSE
    /\ gen_calls = 0
    /\ api_key = None
    /\ today_date = NoDate
    /\ prompt = None
    /\ attempt_number = 0
    /\ waits = << >>
    /\ response = None
    /\ outcome = "none"
    /\ escaped = "none"
    /\ viewer = None
    /\ files0 = files
    /\ prev_file = None
    /\ paused = FALSE
    /\ platform = "linux"
    /\ genai_exceptions \in BOOLEAN
    /\ tz_offset = 0
    /\ task = None
    /\ edits = 0
    /\ sched_in = None
    /\ sched_prev = None
    /\ sched_ok = FALSE
    /\ set_args = NoArgs
    /\ set_ret = "none"
    /\ get_ret = None
    /\ tpl = << >>
    /\ rendered = NotRendered

Next ==
    \/ \E a \in ArgvForms : Launch(a)
    \/ NewDay
    \/ Dispatch
    \/ MenuRunNow
    \/ MenuExit
    \/ AutoExit
    \/ GmsStart
    \/ \E text \in Texts : GmsCallSucceeds(text)
    \/ GmsCallFails
    \/ \E io_ok \in BOOLEAN : GmsWrite(io_ok)
    \/ \E gui_ok \in BOOLEAN : GmsDisplay(gui_ok)

Spec == Init /\ [][Next]_vars

----------------------------------------------------------------------------
(* schedule_task and the settings menu.                                    *)

DigitSeq == <<"0", "1", "2", "3", "4", "5", "6", "7", "8", "9">>
DigitVal(c) == (CHOOSE i \in 1..10 : DigitSeq[i] = c) - 1

\* int(text) for text of decimal digits with optional blanks around them:
\* whether it parses, and its value
IntOk(text) == Strip(text) # << >> /\ \A i \in 1..Len(Strip(text)) : Strip(text)[i] \in Digit

RECURSIVE IntVal(_)
IntVal(digits) ==
    IF digits = << >> THEN 0
    ELSE 10 * IntVal(SubSeq(digits, 1, Len(digits) - 1)) + DigitVal(digits[Len(digits)])

\* strftime('%H:%M') of a time of day given in minutes
HHMM(m) ==
    LET hh == m \div 60
        mm == m % 60
    IN  << DigitSeq[(hh \div 10) + 1], DigitSeq[(hh % 10) + 1], ":",
           DigitSeq[(mm \div 10) + 1], DigitSeq[(mm % 10) + 1] >>

\* schedule_task: the scheduled task's start time afterwards.  Off Windows
\* nothing is registered; an empty stored time, a stored time that is not two
\* integers around one ':' or that is out of range (ValueError), and a failing
\* schtasks (sch_ok false) leave the task as it was; otherwise the task is
\* created or replaced at the stored UTC time converted to local time.
schedule_task(file, sch_ok) ==
    LET utc_time_str == get_config_value(file, "Scheduler", "TIME_UTC",
                                         DEFAULT_SCHEDULE_TIME_UTC)
        c == FirstIn(utc_time_str, {":"}, 1)
        h == SubSeq(utc_time_str, 1, c - 1)
        m == SubSeq(utc_time_str, c + 1, Len(utc_time_str))
    IN  IF platform # "win32" \/ utc_time_str = << >> THEN task
        ELSE IF c = 0 \/ FirstIn(m, {":"}, 1) # 0 \/ ~IntOk(h) \/ ~IntOk(m) THEN task
        ELSE IF IntVal(Strip(h)) > 23 \/ IntVal(Strip(m)) > 59 THEN task
        ELSE IF ~sch_ok THEN task
        ELSE HHMM((IntVal(Strip(h)) * 60 + IntVal(Strip(m)) + tz_offset + 1440) % 1440)

\* Settings operations one session may perform
MaxEdits == 2

\* What the user may type as a schedule time
TimeInputs ==
    { <<"0", "9", ":", "2", "5">>, <<"9", ":", "2", "5">>, <<"2", "5", ":", "7", "0">>,
      <<"1", "3", ":", "3", "0">>, <<"9", ":", "5">>, <<"2", "4", ":", "0", "0">>,
      <<"7", ":", "6", "0">>, <<"0", "9", "2", "5">>, << >>,
      <<" ", "2", "3", ":", "5", "9", " ">> }

KeyInputs == { <<"k2">>, << >>, <<" ", "k2", " ">>, SENTINEL }
ModelInputs == { <<"gemini-2.5-flash">>, <<" ">> }
PromptInputs == { <<"Top", " ", "{", "today_date", "}">>, <<"{", "ticker", "}">>, <<" ">> }

\* main_menu choice '1': schedule_task()
MenuSchedule(sch_ok) ==
    /\ pc = "menu"
    /\ edits < MaxEdits
    /\ edits' = edits + 1
    /\ task' = schedule_task(config_ini, sch_ok)
    /\ UNCHANGED << config_ini, files, today, argv, pc, exit_status, menu_seen, gen_calls,
                    GmsLocals, platform, genai_exceptions, tz_offset, sched_in, sched_prev, sched_ok,
                    RoundTripVars, RenderVars >>

\* main_menu choice '3': settings_menu()
MenuSettings ==
    /\ pc = "menu"
    /\ pc' = "settings"
    /\ UNCHANGED << config_ini, files, today, argv, exit_status, menu_seen, gen_calls,
                    GmsLocals, SettingsVars, RoundTripVars, RenderVars >>

\* settings_menu choice '6'
SettingsBack ==
    /\ pc = "settings"
    /\ pc' = "menu"
    /\ UNCHANGED << config_ini, files, today, argv, exit_status, menu_seen, gen_calls,
                    GmsLocals, SettingsVars, RoundTripVars, RenderVars >>

\* update_schedule_time with `typed` entered at the prompt
update_schedule_time(typed, io_ok, sch_ok) ==
    LET time_str == Strip(typed)
        saved == strptime_ok(time_str)
                 /\ set_config_ret(config_ini, "Scheduler", "TIME_UTC", time_str, io_ok)
    IN  /\ pc = "settings"
        /\ edits < MaxEdits
        /\ edits' = edits + 1
        /\ sched_in' = typed
        /\ sched_prev' = get_config_value(config_ini, "Scheduler", "TIME_UTC", None)
        /\ sched_ok' = saved
        /\ config_ini' = IF saved
                         THEN set_config_file(config_ini, "Scheduler", "TIME_UTC",
                                              time_str, io_ok)
                         ELSE config_ini
        /\ task' = IF saved THEN schedule_task(config_ini', sch_ok) ELSE task
        /\ UNCHANGED << files, today, argv, pc, exit_status, menu_seen, gen_calls,
                        GmsLocals, platform, genai_exceptions, tz_offset, RoundTripVars, RenderVars >>

\* update_api_key with `typed` entered at the prompt
update_api_key(typed, io_ok) ==
    LET new_key == Strip(typed) IN
    /\ pc = "settings"
    /\ edits < MaxEdits
    /\ edits' = edits + 1
    /\ config_ini' = IF new_key = << >> THEN config_ini
                     ELSE set_config_file(config_ini, "API", "KEY", new_key, io_ok)
    /\ UNCHANGED << files, today, argv, pc, exit_status, menu_seen, gen_calls, GmsLocals,
                    platform, genai_exceptions, tz_offset, task, sched_in, sched_prev, sched_ok,
                    RoundTripVars, RenderVars >>

\* update_model with `typed` entered at the prompt
update_model(typed, io_ok) ==
    LET new_model == Strip(typed) IN
    /\ pc = "settings"
    /\ edits < MaxEdits
    /\ edits' = edits + 1
    /\ config_ini' = IF new_model = << >> THEN config_ini
                     ELSE set_config_file(config_ini, "API", "MODEL", new_model, io_ok)
    /\ UNCHANGED << files, today, argv, pc, exit_status, menu_seen, gen_calls, GmsLocals,
                    platform, genai_exceptions, tz_offset, task, sched_in, sched_prev, sched_ok,
                    RoundTripVars, RenderVars >>

\* edit_prompt: the editor is opened on a temporary copy (editor_ok false: it
\* could not be started, the exception is caught) and `saved` is what the
\* temporary file holds when the user presses Enter
edit_prompt(saved, editor_ok, io_ok) ==
    LET current_prompt == get_config_value(config_ini, "Prompt", "TEMPLATE",
                                           DEFAULT_PROMPT_TEMPLATE)
        new_prompt == Strip(saved)
    IN  /\ pc = "settings"
        /\ edits < MaxEdits
        /\ edits' = edits + 1
        /\ config_ini' = IF ~editor_ok \/ new_prompt = << >> \/ new_prompt = current_prompt
                         THEN config_ini
                         ELSE set_config_file(config_ini, "Prompt", "TEMPLATE",
                                              new_prompt, io_ok)
        /\ UNCHANGED << files, today, argv, pc, exit_status, menu_seen, gen_calls,
                        GmsLocals, platform, genai_exceptions, tz_offset, task, sched_in, sched_prev,
                        sched_ok, RoundTripVars, RenderVars >>

\* toggle_gui
toggle_gui(io_ok) ==
    LET current_setting_str == get_config_value(config_ini, "Settings", "SHOW_GUI",
                                                <<"true">>)
        is_enabled == Lower(current_setting_str) = <<"true">>
        new_setting == IF is_enabled THEN <<"false">> ELSE <<"true">>
    IN  /\ pc = "settings"
        /\ edits < MaxEdits
        /\ edits' = edits + 1
        /\ config_ini' = set_config_file(config_ini, "Settings", "SHOW_GUI", new_setting,
                                         io_ok)
        /\ UNCHANGED << files, today, argv, pc, exit_status, menu_seen, gen_calls,
                        GmsLocals, platform, genai_exceptions, tz_offset, task, sched_in, sched_prev,
                        sched_ok, RoundTripVars, RenderVars >>

\* The config.ini files an interactive session may find: none, one with a
\* schedule time stored, and ones whose stored time was edited by hand
SettingsConfigs ==
    { NoFile,
      ConfigWrite(ConfigSet(<< >>, <<"Scheduler">>, <<"TIME_UTC">>, <<"0", "6", ":", "0", "0">>)),
      ConfigWrite(ConfigSet(<< >>, <<"Scheduler">>, <<"TIME_UTC">>, <<"2", "5", ":", "7", "0">>)),
      ConfigWrite(ConfigSet(<< >>, <<"Scheduler">>, <<"TIME_UTC">>, << >>)),
      << <<"time_utc", " ", "=", " ", "0", "6", ":", "0", "0">> >> }

InitSettings ==
    /\ config_ini \in SettingsConfigs
    /\ files = [d \in Dates |-> NoReport]
    /\ today = FirstDate
    /\ argv = <<SCRIPT>>
    /\ pc = "off"
    /\ exit_status = -1
    /\ menu_seen = FALSE
    /\ gen_calls = 0
    /\ api_key = None
    /\ today_date = NoDate
    /\ prompt = None
    /\ attempt_number = 0
    /\ waits = << >>
    /\ response = None
    /\ outcome = "none"
    /\ escaped = "none"
    /\ viewer = None
    /\ files0 = files
    /\ prev_file = None
    /\ paused = FALSE
    /\ platform \in {"win32", "linux"}
    /\ genai_exceptions = TRUE
    /\ tz_offset \in {0 - 300, 330}
    /\ task = None
    /\ edits = 0
    /\ sched_in = None
    /\ sched_prev = None
    /\ sched_ok = FALSE
    /\ set_args = NoArgs
    /\ set_ret = "none"
    /\ get_ret = None
    /\ tpl = << >>
    /\ rendered = NotRendered

NextSettings ==
    \/ Launch(<<SCRIPT>>)
    \/ Dispatch
    \/ MenuExit
    \/ \E sch_ok \in BOOLEAN : MenuSchedule(sch_ok)
    \/ MenuSettings
    \/ SettingsBack
    \/ \E typed \in TimeInputs, io_ok, sch_ok \in BOOLEAN :
          update_schedule_time(typed, io_ok, sch_ok)
    \/ \E typed \in KeyInputs, io_ok \in BOOLEAN : update_api_key(typed, io_ok)
    \/ \E typed \in ModelInputs, io_ok \in BOOLEAN : update_model(typed, io_ok)
    \/ \E saved \in PromptInputs, editor_ok, io_ok \in BOOLEAN :
          edit_prompt(saved, editor_ok, io_ok)
    \/ \E io_ok \in BOOLEAN : toggle_gui(io_ok)

SpecSettings == InitSettings /\ [][NextSettings]_vars

----------------------------------------------------------------------------
(* The config store on its own: one set_config_value on a config.ini, then *)
(* one get_config_value of the same section and key.                       *)

\* The longest value written, and the characters values are made of
MaxValueLen == 3
ValueChars == {"a", " ", "=", "#"}
Values == SeqsUpTo(ValueChars, MaxValueLen)

\* The (section, key) pairs the program reads and writes
Slots ==
    { <<"API", "KEY">>, <<"API", "MODEL">>, <<"Prompt", "TEMPLATE">>,
      <<"Scheduler", "TIME_UTC">>, <<"Settings", "SHOW_GUI">> }

Fallbacks == { None, << >>, <<"fallback">> }

RoundTripConfigs ==
    { NoFile,
      MakeConfig(<<"k">>, None, None),
      MakeConfig(<<"k">>, <<"x">>, <<"false">>),
      << <<"key", " ", "=", " ", "k">> >> }

\* set_config_value(section, key, value)
SetValue(section, key, value, io_ok) ==
    /\ pc = "off"
    /\ pc' = "set_done"
    /\ set_args' = [section |-> section, key |-> key, value |-> value]
    /\ set_ret' = IF set_config_ret(config_ini, section, key, value, io_ok)
                  THEN "True" ELSE "False"
    /\ config_ini' = set_config_file(config_ini, section, key, value, io_ok)
    /\ UNCHANGED << files, today, argv, exit_status, menu_seen, gen_calls, GmsLocals,
                    SettingsVars, get_ret, RenderVars >>

\* get_config_value(section, key, fallback) for the section and key just set
GetValue(fallback) ==
    /\ pc = "set_done"
    /\ pc' = "get_done"
    /\ get_ret' = get_config_value(config_ini, set_args.section, set_args.key, fallback)
    /\ UNCHANGED << config_ini, files, today, argv, exit_status, menu_seen, gen_calls,
                    GmsLocals, SettingsVars, set_args, set_ret, RenderVars >>

InitConfig ==
    /\ config_ini \in RoundTripConfigs
    /\ files = [d \in Dates |-> NoReport]
    /\ today = FirstDate
    /\ argv = <<SCRIPT>>
    /\ pc = "off"
    /\ exit_status = -1
    /\ menu_seen = FALSE
    /\ gen_calls = 0
    /\ api_key = None
    /\ today_date = NoDate
    /\ prompt = None
    /\ attempt_number = 0
    /\ waits = << >>
    /\ response = None
    /\ outcome = "none"
    /\ escaped = "none"
    /\ viewer = None
    /\ files0 = files
    /\ prev_file = None
    /\ paused = FALSE
    /\ platform = "linux"
    /\ genai_exceptions = TRUE
    /\ tz_offset = 0
    /\ task = None
    /\ edits = 0
    /\ sched_in = None
    /\ sched_prev = None
    /\ sched_ok = FALSE
    /\ set_args = NoArgs
    /\ set_ret = "none"
    /\ get_ret = None
    /\ tpl = << >>
    /\ rendered = NotRendered

NextConfig ==
    \/ \E slot \in Slots, value \in Values, io_ok \in BOOLEAN :
          SetValue(slot[1], slot[2], value, io_ok)
    \/ \E fallback \in Fallbacks : GetValue(fallback)

SpecConfig == InitConfig /\ [][NextConfig]_vars

----------------------------------------------------------------------------
(* The prompt rendering on its own: str.format applied to every template   *)
(* over a small alphabet.                                                  *)

\* The longest template rendered, and the tokens templates are made of
MaxTemplateLen == 6
TemplateTokens == {"{", "}", "today_date", "x"}
Templates == SeqsUpTo(TemplateTokens, MaxTemplateLen)

Render ==
    /\ rendered = NotRendered
    /\ rendered' = Format(tpl, DateText(today))
    /\ UNCHANGED << config_ini, files, today, argv, pc, exit_status, menu_seen, gen_calls,
                    GmsLocals, SettingsVars, RoundTripVars, tpl >>

InitRender ==
    /\ tpl \in Templates
    /\ today \in Dates
    /\ config_ini = NoFile
    /\ files = [d \in Dates |-> NoReport]
    /\ argv = <<SCRIPT>>
    /\ pc = "off"
    /\ exit_status = -1
    /\ menu_seen = FALSE
    /\ gen_calls = 0
    /\ api_key = None
    /\ today_date = NoDate
    /\ prompt = None
    /\ attempt_number = 0
    /\ waits = << >>
    /\ response = None
    /\ outcome = "none"
    /\ escaped = "none"
    /\ viewer = None
    /\ files0 = files
    /\ prev_file = None
    /\ paused = FALSE
    /\ platform = "linux"
    /\ genai_exceptions = TRUE
    /\ tz_offset = 0
    /\ task = None
    /\ edits = 0
    /\ sched_in = None
    /\ sched_prev = None
    /\ sched_ok = FALSE
    /\ set_args = NoArgs
    /\ set_ret = "none"
    /\ get_ret = None
    /\ rendered = NotRendered

NextRender == Render

SpecRender == InitRender /\ [][NextRender]_vars

----------------------------------------------------------------------------
(* Properties.                                                             *)

StoredKey == get_config_value(config_ini, "API", "KEY", None)
StoredTemplate ==
    get_config_value(config_ini, "Prompt", "TEMPLATE", DEFAULT_PROMPT_TEMPLATE)
StoredShowGui == get_config_value(config_ini, "Settings", "SHOW_GUI", <<"true">>)
StoredTime == get_config_value(config_ini, "Scheduler", "TIME_UTC", None)

\* The command line's first argument is the marker
MarkerFirst == Len(argv) >= 2 /\ argv[2] = "run"

\* C1: the retried backend call is attempted at most 5 times; when the first 4
\* attempts fail and the 5th succeeds the run holds that response after
\* exactly 4 waits, each between 4 and 10; when 5 attempts fail the run ends
\* in a reported failure (the printed error, or the traceback where the
\* handler clauses cannot be evaluated), holds no response, has changed no
\* file, and no further attempt is pending.
C1_RetryPolicy ==
    /\ attempt_number <= 5
    /\ (attempt_number = 5 /\ response # None) =>
           /\ response \in Texts
           /\ Len(waits) = 4
           /\ \A i \in 1..Len(waits) : waits[i] >= 4 /\ waits[i] <= 10
    /\ attempt_number = 5 => pc # "gms_call"
    /\ (attempt_number = 5 /\ response = None) =>
           /\ outcome = IF genai_exceptions THEN "unexpected" ELSE "traceback"
           /\ escaped = IF genai_exceptions THEN "none" ELSE "AttributeError"
           /\ viewer = None
           /\ files = files0

\* C1 witness: four failures, then the fifth attempt succeeded
C1_Witness == attempt_number = 5 /\ response \in Texts /\ Len(waits) = 4

\* C2: when the stored API key is absent, empty or the placeholder
\* YOUR_API_KEY_HERE, a run of get_meme_stocks ends with the "not configured"
\* message and without a single backend call, whatever the mode.
C2_NoCallWithoutKey ==
    (gen_calls > 0 /\ (StoredKey = None \/ StoredKey = << >> \/ StoredKey = SENTINEL)) =>
        /\ outcome = "not_configured"
        /\ attempt_number = 0
        /\ response = None
        /\ pc \notin {"gms_call", "gms_write", "gms_gui"}
        /\ files = files0

\* C2 witness: an automated run found the placeholder key and returned
C2_Witness ==
    /\ StoredKey = SENTINEL
    /\ outcome = "not_configured"
    /\ pc = "auto_done"
    /\ ~paused

\* C3: update_schedule_time stores "09:25" when it is typed and saved, and
\* rejects "9:25" and "25:70", leaving the stored TIME_UTC as it was.
C3_ScheduleTimeValidated ==
    /\ (sched_in = <<"0", "9", ":", "2", "5">> /\ sched_ok) =>
           StoredTime = <<"0", "9", ":", "2", "5">>
    /\ sched_in \in {<<"9", ":", "2", "5">>, <<"2", "5", ":", "7", "0">>} =>
           ~sched_ok /\ StoredTime = sched_prev

\* C4 as stated: after a set_config_value that returned True, the next
\* get_config_value of that section and key returns exactly the value set.
C4_RoundTripExact ==
    (pc = "get_done" /\ set_ret = "True") => get_ret = set_args.value

\* C4 as amended: after a set_config_value that returned True, the next
\* get_config_value returns the value set without its leading and trailing
\* blanks, whatever the fallback: exactly the value when it has none (the
\* empty string included), and never the fallback.
C4_RoundTripStripped ==
    (pc = "get_done" /\ set_ret = "True") =>
        LET v == set_args.value IN
        /\ get_ret = Strip(v)
        /\ (v = << >> \/ (~IsSpace(v[1]) /\ ~IsSpace(v[Len(v)]))) => get_ret = v

\* C4 witness: a value with a leading blank was set and read back without it
C4_Witness ==
    /\ pc = "get_done"
    /\ set_ret = "True"
    /\ set_args.value = <<" ", "a", "=">>
    /\ get_ret = <<"a", "=">>

\* str.replace(old, new): every occurrence of old, left to right
RECURSIVE Replace(_, _, _)
Replace(s, old, new) ==
    IF Len(s) < Len(old) THEN s
    ELSE IF SubSeq(s, 1, Len(old)) = old
         THEN new \o Replace(SubSeq(s, Len(old) + 1, Len(s)), old, new)
         ELSE <<Head(s)>> \o Replace(Tail(s), old, new)

\* Every brace of the template belongs to an occurrence of {today_date}
OnlyPlaceholderBraces(t) ==
    \A i \in 1..Len(Replace(t, PLACEHOLDER, << >>)) :
        Replace(t, PLACEHOLDER, << >>)[i] \notin Braces

\* C5 as stated: rendering returns the template with every occurrence of
\* {today_date} replaced by the date and every other character as it was.
C5_RenderReplacesOnly ==
    rendered # NotRendered =>
        rendered.ok /\ rendered.out = Replace(tpl, PLACEHOLDER, DateText(today))

\* C5 as amended: for a template whose braces all belong to occurrences of
\* {today_date}, rendering returns the template with every occurrence replaced
\* by the date and every other character as it was; a template without braces
\* is returned unchanged.
C5_RenderPlaceholderOnly ==
    (rendered # NotRendered /\ OnlyPlaceholderBraces(tpl)) =>
        /\ rendered.ok
        /\ rendered.out = Replace(tpl, PLACEHOLDER, DateText(today))
        /\ (\A i \in 1..Len(tpl) : tpl[i] \notin Braces) => rendered.out = tpl

\* C5 witness: two occurrences of the placeholder were both replaced
C5_Witness ==
    /\ tpl = PLACEHOLDER \o PLACEHOLDER
    /\ rendered.ok
    /\ rendered.out = DateText(today) \o DateText(today)

\* C6: when a run writes today's report over an existing one, the file holds
\* exactly the run's response: not the earlier text, not both.
C6_Overwrite ==
    (outcome \in {"saved", "gui_disabled", "displayed", "gui_error"}
     /\ prev_file # None /\ prev_file # NoReport) =>
        /\ files[today_date] = response
        /\ files[today_date] # prev_file \o response

\* C6 witness: a second run on the same date replaced a different report
C6_Witness ==
    /\ outcome \in {"gui_disabled", "displayed"}
    /\ prev_file \in Texts
    /\ prev_file # response
    /\ files[today_date] = response

\* C7: started with the marker argument, the process never shows the menu,
\* calls get_meme_stocks once, lets no exception out of it and ends with exit
\* status 0, whatever the run met.
C7_AutomatedRunExitsZero ==
    MarkerFirst =>
        /\ ~menu_seen
        /\ gen_calls <= 1
        /\ escaped = "none"
        /\ exit_status \in {0 - 1, 0}
        /\ pc = "exited" => (exit_status = 0 /\ gen_calls = 1)

\* C8 as stated: the automated run is selected only by the marker alone; no
\* argument, another first argument and the marker followed by more arguments
\* all lead to the menu.
C8_MarkerAlone ==
    pc \notin {"off", "main"} => (~menu_seen <=> argv = <<SCRIPT, "run">>)

\* C8 as amended: the automated run is selected exactly when the first
\* argument is the marker, further arguments or not; no argument and another
\* first argument lead to the menu.
C8_MarkerFirst ==
    pc \notin {"off", "main"} =>
        (~menu_seen <=> (Len(argv) >= 2 /\ argv[2] = "run"))

\* C8 witness: the marker followed by another argument ran without the menu
C8_Witness ==
    /\ argv = <<SCRIPT, "run", "other">>
    /\ pc = "exited"
    /\ ~menu_seen
    /\ gen_calls = 1

\* The stored template makes rendering raise KeyError in the current run
RenderKeyError ==
    /\ today_date # NoDate
    /\ Format(StoredTemplate, DateText(today_date)).err = "KeyError"

\* C9 as stated: a template that names another placeholder makes rendering
\* fail and the error leaves get_meme_stocks.
C9_RenderErrorPropagates == RenderKeyError => escaped # "none"

\* C9 as amended: a template whose rendering reaches a placeholder other than
\* today_date raises KeyError inside the try block, and the KeyError never
\* reaches the caller: get_meme_stocks' own except KeyError clause absorbs
\* it, the run prints the missing-key error and returns; where the handler
\* clauses cannot be evaluated it is AttributeError that leaves instead.
\* Either way there is no backend call, no file written and no viewer.
C9_RenderErrorAbsorbed ==
    RenderKeyError =>
        /\ escaped # "KeyError"
        /\ genai_exceptions =>
               /\ escaped = "none"
               /\ outcome = "missing_key"
               /\ exit_status # 1
        /\ ~genai_exceptions =>
               /\ escaped = "AttributeError"
               /\ outcome = "traceback"
        /\ prompt = None
        /\ attempt_number = 0
        /\ files = files0
        /\ viewer = None

\* C9 witness: an interactive run hit the unknown placeholder and is back at
\* the menu
C9_Witness ==
    /\ RenderKeyError
    /\ outcome = "missing_key"
    /\ pc = "menu"

\* C10: a run without a backend response changes no report file and opens no
\* viewer; the viewer is opened only after the report file holds the response
\* and only if the stored SHOW_GUI (default 'true'), lower-cased, is 'true'.
C10_FileThenViewer ==
    /\ response = None => (files = files0 /\ viewer = None /\ pc # "gms_gui")
    /\ (pc = "gms_gui" \/ viewer # None) =>
           /\ files[today_date] = response
           /\ Lower(StoredShowGui) = <<"true">>

\* C10 witness: the viewer showed a report with SHOW_GUI stored as "True"
C10_Witness ==
    /\ viewer # None
    /\ viewer = response
    /\ StoredShowGui = <<"True">>
    /\ files[today_date] = response

====
